---- MODULE Spec2Model ----
(***************************************************************************)
(* Medidor de nivel de ruido (Projeto_Final_Edcarllos.c).                  *)
(*                                                                         *)
(* Fixed-point conventions used throughout:                                *)
(*   - levels and the threshold are integers in tenths of a dB            *)
(*     (100.0 dB = 1000);                                                  *)
(*   - voltages and the DC offset are integers in microvolts;              *)
(*   - the 32-bit microsecond timer is kept in ticks of 64 us, so that it  *)
(*     wraps at 2^32 / 64 = 2^26 and the 200000 us debounce window is      *)
(*     exactly 3125 ticks.                                                 *)
(***************************************************************************)
EXTENDS Integers, Sequences, FiniteSets

\* ------------------------------------------------------------------------
\* Program constants
\* ------------------------------------------------------------------------
LIMITE_DB ==
  100

AMOSTRAS ==
  64

TAMANHO_HISTORICO ==
  128

MONITORAMENTO ==
  "MONITORAMENTO"

ALERTA ==
  "ALERTA"

ESTATISTICAS ==
  "ESTATISTICAS"

Modo ==
  {MONITORAMENTO, ALERTA, ESTATISTICAS}

\* debounce_delay = 200000 us, in timer ticks of 64 us
debounce_delay ==
  200000 \div 64

\* time_us_32() is a uint32_t: modulus 2^32 us = 2^26 ticks of 64 us
TimerMod ==
  2^26

\* wrap_val = 125000000 / 2500 / 16
wrap_val ==
  (125000000 \div 2500) \div 16

\* top of pwm_get_default_config(), programmed by pwm_init
PwmTopPadrao ==
  65535

\* ------------------------------------------------------------------------
\* Bounds of the model
\* ------------------------------------------------------------------------
MaxCiclos ==
  2

MaxChamadas ==
  4

MaxMedidas ==
  2

ExtraPushes ==
  3

\* ------------------------------------------------------------------------
\* Inputs
\* ------------------------------------------------------------------------
\* A batch of AMOSTRAS raw samples is described by a centre value, an
\* amplitude and a wave form.
Amostra(lote, i) ==
  CASE lote.forma = "quadrada" ->
         IF i % 2 = 0 THEN lote.base + lote.amp ELSE lote.base - lote.amp
    [] lote.forma = "degrau" ->
         IF 2 * i < AMOSTRAS THEN lote.base - lote.amp ELSE lote.base + lote.amp
    [] lote.forma = "rampa" ->
         (lote.base - lote.amp) + ((2 * lote.amp * i) \div (AMOSTRAS - 1))

\* Batches offered to the main loop: silence at mid-scale bias, a tone that
\* settles at the default threshold, and a louder tone.
Lotes ==
  { [base |-> 2048, amp |-> 0,   forma |-> "quadrada"],
    [base |-> 2048, amp |-> 256, forma |-> "quadrada"],
    [base |-> 2048, amp |-> 400, forma |-> "quadrada"] }

\* GPIO levels of the two buttons (active low, pulled up at rest)
NivelGpio ==
  {0, 1}

\* Raw joystick readings offered to the main loop
LeiturasJoystick ==
  {0, 2048, 4095}

\* Duration of one main-loop cycle (render + sleep_ms(30)), in timer ticks:
\* 80 ms or 120 ms
TemposDeCiclo ==
  {1250, 1875}

\* Timer value at the first pass of the loop: boot, hardware set-up and
\* sleep_ms(500), 520 ms in all
TempoInicial ==
  13 * 625

\* A timer value later in the run (20 s), by which any threshold can have
\* been reached
TempoMeio ==
  500 * 625

\* Thresholds (tenths of a dB) a sequence of presses can reach, offered as
\* starting points to the button specification: both ends of the range, one
\* step inside each end, and the default
LimitesIniciais ==
  {300, 310, 10 * LIMITE_DB, 1190, 1200}

\* Ticks since the latest accepted button tick at that later moment:
\* 80 ms and 240 ms
AtrasosIniciais ==
  {1250, 3750}

\* Spacing of two verificar_botoes calls, in ticks: 80 ms, one tick under
\* 200 ms, exactly 200 ms, and half the period of the 32-bit timer
Intervalos ==
  {1250, debounce_delay - 1, debounce_delay, 2^25}

\* 12-bit readings offered to the mode selector on its own: every 64th
\* count, full scale, and every count around 0.3 * 4096 = 1228.8 and
\* 0.7 * 4096 = 2867.2
LeiturasADC ==
  { 64 * k : k \in 0 .. 63 } \cup {4095} \cup (1220 .. 1237) \cup (2859 .. 2876)

\* Batches offered to the level estimator on its own: all-zero, constant,
\* one count of ripple, half- and full-scale tones, a step and a ramp
LotesDeEnsaio ==
  { [base |-> 0,    amp |-> 0,    forma |-> "quadrada"],
    [base |-> 2048, amp |-> 0,    forma |-> "quadrada"],
    [base |-> 4095, amp |-> 0,    forma |-> "quadrada"],
    [base |-> 2048, amp |-> 1,    forma |-> "quadrada"],
    [base |-> 2048, amp |-> 256,  forma |-> "quadrada"],
    [base |-> 2048, amp |-> 2047, forma |-> "quadrada"],
    [base |-> 2048, amp |-> 2047, forma |-> "degrau"],
    [base |-> 2048, amp |-> 2047, forma |-> "rampa"] }

\* Prior values of the DC offset, microvolts: zero, one microvolt, mid-scale
\* and the voltage of the largest reading
OffsetsIniciais ==
  {0, 1, 1650000, (4095 * 103125) \div 128}

\* Generators of the level sequence pushed into the history on its own: the
\* n-th level is 30.0 dB + ((semente + passo * n) mod 90.0 dB)
Sementes ==
  {0, 5, 899}

Passos ==
  {1, 7, 450}

\* Contents offered to the graph on its own, tenths of a dB: every slot holds
\* the level fundo except one slot, at posicao, which holds pico.  pico runs
\* over a never-written slot, 20.0 dB, the floor of the estimator, the levels
\* around the 40.0 dB limit of the scale, 80.0 dB, the top of the threshold
\* range and the level of a full-scale batch
Picos ==
  {0, 200, 300, 399, 400, 401, 800, 1200, 1240}

Fundos ==
  {0, 300}

PosicoesDoPico ==
  {0, 64, TAMANHO_HISTORICO - 1}

\* values of indice_historico offered to the graph on its own
IndicesIniciais ==
  {0, 1, TAMANHO_HISTORICO - 1}

\* ------------------------------------------------------------------------
\* Arithmetic helpers
\* ------------------------------------------------------------------------
\* integer division truncating toward zero, as a C float-to-int cast does
Trunc(n, d) ==
  IF n >= 0 THEN n \div d ELSE -((-n) \div d)

fmaxf(a, b) ==
  IF a >= b THEN a ELSE b

fminf(a, b) ==
  IF a <= b THEN a ELSE b

RECURSIVE RaizBusca(_, _, _)
RaizBusca(n, lo, hi) ==
  IF lo = hi THEN lo
  ELSE LET mid == (lo + hi + 1) \div 2
       IN  IF mid * mid <= n THEN RaizBusca(n, mid, hi)
                             ELSE RaizBusca(n, lo, mid - 1)

\* sqrtf on non-negative integers, rounded down
sqrtf(n) ==
  RaizBusca(n, 0, 33000)

RECURSIVE Decada(_)
Decada(x) ==
  IF x < 10 THEN 0 ELSE 1 + Decada(x \div 10)

\* 1000 * 10^(j/200) rounded up, j = 0..199: one decade of 20*log10 in
\* steps of a tenth of a dB
Pot10 ==
  << 1000, 1012, 1024, 1036, 1048, 1060, 1072, 1084, 1097, 1110,
     1123, 1136, 1149, 1162, 1175, 1189, 1203, 1217, 1231, 1245,
     1259, 1274, 1289, 1304, 1319, 1334, 1349, 1365, 1381, 1397,
     1413, 1429, 1446, 1463, 1480, 1497, 1514, 1532, 1549, 1567,
     1585, 1604, 1622, 1641, 1660, 1679, 1699, 1718, 1738, 1758,
     1779, 1799, 1820, 1841, 1863, 1884, 1906, 1928, 1950, 1973,
     1996, 2019, 2042, 2066, 2090, 2114, 2138, 2163, 2188, 2214,
     2239, 2265, 2291, 2318, 2345, 2372, 2399, 2427, 2455, 2484,
     2512, 2541, 2571, 2601, 2631, 2661, 2692, 2723, 2755, 2787,
     2819, 2852, 2885, 2918, 2952, 2986, 3020, 3055, 3091, 3127,
     3163, 3199, 3236, 3274, 3312, 3350, 3389, 3428, 3468, 3508,
     3549, 3590, 3631, 3673, 3716, 3759, 3802, 3846, 3891, 3936,
     3982, 4028, 4074, 4121, 4169, 4217, 4266, 4316, 4366, 4416,
     4467, 4519, 4571, 4624, 4678, 4732, 4787, 4842, 4898, 4955,
     5012, 5070, 5129, 5189, 5249, 5309, 5371, 5433, 5496, 5560,
     5624, 5689, 5755, 5822, 5889, 5957, 6026, 6096, 6166, 6238,
     6310, 6383, 6457, 6532, 6607, 6684, 6761, 6840, 6919, 6999,
     7080, 7162, 7245, 7329, 7414, 7499, 7586, 7674, 7763, 7853,
     7944, 8036, 8129, 8223, 8318, 8414, 8512, 8610, 8710, 8811,
     8913, 9016, 9121, 9226, 9333, 9441, 9550, 9661, 9773, 9886 >>

\* 20 * log10f(x + 1e-12) in tenths of a dB, rounded down, for an integer
\* ratio x >= 0; at x = 0 the epsilon alone is left: 20*log10(1e-12) = -240
vinte_log10f(x) ==
  IF x = 0 THEN -2400
  ELSE LET k == Decada(x)
           m == (x * 1000) \div (10 ^ k)
           j == CHOOSE n \in 1..200 :
                  /\ Pot10[n] <= m
                  /\ (n = 200 \/ Pot10[n + 1] > m)
       IN  200 * k + (j - 1)

\* tensao = leitura_adc * 3.3 / 4096, in microvolts (3300000/4096 = 103125/128)
Tensao(leitura_adc) ==
  (leitura_adc * 103125) \div 128

\* One iteration of the sample loop of ler_decibeis: updates the low-pass DC
\* offset and adds the squared AC component.  tensao_ac = (tensao - offset) * 10
\* is carried in millivolts; each square is divided by AMOSTRAS as it is
\* added, so media_quadrados is soma_quadrados / AMOSTRAS in mV^2.
PassoAmostra(lote, i, st) ==
  LET tensao    == Tensao(Amostra(lote, i))
      novo      == (95 * st.offset_dc + 5 * tensao) \div 100
      tensao_ac == Trunc((tensao - novo) * 10, 1000)
  IN  [offset_dc       |-> novo,
       media_quadrados |-> st.media_quadrados
                             + ((tensao_ac * tensao_ac) \div AMOSTRAS)]

\* iterations lo .. hi-1 of the sample loop, in order; the first half is
\* evaluated before the second half starts (its sum of squares is never
\* negative, so the test only fixes the order of evaluation)
RECURSIVE AcumularAmostras(_, _, _, _)
AcumularAmostras(lote, lo, hi, st) ==
  IF hi - lo = 1 THEN PassoAmostra(lote, lo, st)
  ELSE LET mid  == (lo + hi) \div 2
           meio == AcumularAmostras(lote, lo, mid, st)
       IN  IF meio.media_quadrados >= 0
           THEN AcumularAmostras(lote, mid, hi, meio)
           ELSE meio

\* variant: the result is not floored at 30.0 dB
ler_decibeis_sem_piso(offset, lote) ==
  LET r   == AcumularAmostras(lote, 0, AMOSTRAS,
                              [offset_dc |-> offset, media_quadrados |-> 0])
      rms == sqrtf(r.media_quadrados)
  IN  [db |-> vinte_log10f(rms * 50), offset_dc |-> r.offset_dc]

\* rms / CALIBRACAO with rms in mV and CALIBRACAO = 0.00002: rms_mV * 50
ler_decibeis(offset, lote) ==
  LET r   == AcumularAmostras(lote, 0, AMOSTRAS,
                              [offset_dc |-> offset, media_quadrados |-> 0])
      rms == sqrtf(r.media_quadrados)
  IN  [db |-> fmaxf(300, vinte_log10f(rms * 50)), offset_dc |-> r.offset_dc]

\* ------------------------------------------------------------------------
\* State
\* ------------------------------------------------------------------------
VARIABLES
  pc,                \* position of main() inside one pass of the loop
  ciclos,            \* completed passes of the loop
  db,                \* level of the current pass, tenths of a dB
  offset_dc,         \* static offset_dc of ler_decibeis, microvolts
  historico,         \* float historico[TAMANHO_HISTORICO], tenths of a dB
  indice_historico,  \* uint8_t indice_historico
  limite_atual_db,   \* threshold, tenths of a dB
  modo_atual,        \* enum Modo
  contador_alertas,  \* unsigned int contador_alertas
  estado_anterior,   \* static estado_anterior of acionar_buzzer
  pwm,               \* buzzer PWM slice: enable bit, wrap (TOP), channel level
  last_press,        \* static last_press of verificar_botoes, timer ticks
  agora,             \* value of time_us_32(), timer ticks
  adc_input,         \* channel selected by adc_select_input
  alerta_cond,       \* alerta_cond of the latest pass
  tela,              \* contents composed into display_buffer
  painel,            \* contents last sent by render_on_display
  registro,          \* history variable: every level pushed so far, in order
  transicoes,        \* history variable: off->on changes of alerta_cond
  chamada,           \* history variable: the latest verificar_botoes call
  chamada_ant,       \* history variable: the call before that one
  decorrido,         \* history variable: ticks since the latest call
  leitura_x,         \* history variable: raw reading of the latest joystick check
  modo_antes,        \* history variable: mode before the latest joystick check
  padrao,            \* input generator of the history-buffer specification
  adc_lidos          \* history variable: channels the latest reads were made on

vars ==
  << pc, ciclos, db, offset_dc, historico, indice_historico, limite_atual_db,
     modo_atual, contador_alertas, estado_anterior, pwm, last_press, agora,
     adc_input, alerta_cond, tela, painel, registro, transicoes, chamada,
     chamada_ant, decorrido, leitura_x, modo_antes, padrao, adc_lidos >>

Indices ==
  0 .. (TAMANHO_HISTORICO - 1)

SemLeituras ==
  [estimador |-> {}, joystick |-> {}]

SemChamada(limite) ==
  [n |-> 0, desde |-> 0, passou |-> FALSE, antes |-> limite, depois |-> limite,
   ga |-> 1, gb |-> 1]

\* State at the first pass of while(true): the static initialisers and the
\* effects of inicializar_hardware (adc_select_input(2); pwm_init with the
\* default configuration and start = true, channel level at its reset value 0).
InitCom(pc0, limite0, agora0, last0, modo0, offset0, padrao0) ==
  /\ pc = pc0
  /\ ciclos = 0
  /\ db = 0
  /\ offset_dc = offset0
  /\ historico = [i \in Indices |-> 0]
  /\ indice_historico = 0
  /\ limite_atual_db = limite0
  /\ modo_atual = modo0
  /\ contador_alertas = 0
  /\ estado_anterior = FALSE
  /\ pwm = [enabled |-> TRUE, wrap |-> PwmTopPadrao, level |-> 0]
  /\ last_press = last0
  /\ agora = agora0
  /\ adc_input = 2
  /\ alerta_cond = FALSE
  /\ tela = [tipo |-> "inicio"]
  /\ painel = [tipo |-> "inicio"]
  /\ registro = << >>
  /\ transicoes = 0
  /\ chamada = SemChamada(limite0)
  /\ chamada_ant = SemChamada(limite0)
  /\ decorrido = (agora0 - last0) % TimerMod
  /\ leitura_x = -1
  /\ modo_antes = modo0
  /\ padrao = padrao0
  /\ adc_lidos = SemLeituras

SemPadrao ==
  [semente |-> 0, passo |-> 0]

Init ==
  InitCom("ler", 10 * LIMITE_DB, TempoInicial, 0, MONITORAMENTO, 0, SemPadrao)

\* ------------------------------------------------------------------------
\* atualizar_historico
\* ------------------------------------------------------------------------
\* variant: the index is advanced before the slot is written
atualizar_historico_adiantado(h, nivel) ==
  [historico |-> [h.historico EXCEPT
                    ![(h.indice + 1) % TAMANHO_HISTORICO] = nivel],
   indice    |-> (h.indice + 1) % TAMANHO_HISTORICO]

atualizar_historico(h, nivel) ==
  [historico |-> [h.historico EXCEPT ![h.indice] = nivel],
   indice    |-> (h.indice + 1) % TAMANHO_HISTORICO]

\* ------------------------------------------------------------------------
\* verificar_botoes
\* ------------------------------------------------------------------------
\* true when the call returns early: time_us_32() - last_press, in uint32_t
\* arithmetic, is below the debounce window
\* variant: the window is closed at exactly 200 ms as well
BloqueadoInclusivo(t, last) ==
  ((t - last) % TimerMod) <= debounce_delay

Bloqueado(t, last) ==
  ((t - last) % TimerMod) < debounce_delay

\* variant: the adjustments are not clamped
AjustarLimiteSemFaixa(limite, ga, gb) ==
  LET l1 == IF ga = 0 THEN limite + 10 ELSE limite
  IN  IF gb = 0 THEN l1 - 10 ELSE l1

\* variant: button B is served before button A
AjustarLimiteInvertido(limite, ga, gb) ==
  LET l1 == IF gb = 0 THEN fmaxf(300, limite - 10) ELSE limite
  IN  IF ga = 0 THEN fminf(1200, l1 + 10) ELSE l1

AjustarLimite(limite, ga, gb) ==
  LET l1 == IF ga = 0 THEN fminf(1200, limite + 10) ELSE limite
  IN  IF gb = 0 THEN fmaxf(300, l1 - 10) ELSE l1

\* variant: last_press is not rewritten
verificar_botoes_sem_marca(limite, last, t, ga, gb) ==
  IF Bloqueado(t, last)
  THEN [limite |-> limite, last_press |-> last]
  ELSE [limite |-> AjustarLimite(limite, ga, gb), last_press |-> last]

\* variant: last_press is rewritten only when a button was active
verificar_botoes_marca_so_ativo(limite, last, t, ga, gb) ==
  IF Bloqueado(t, last)
  THEN [limite |-> limite, last_press |-> last]
  ELSE [limite |-> AjustarLimite(limite, ga, gb),
        last_press |-> IF ga = 0 \/ gb = 0 THEN t ELSE last]

verificar_botoes(limite, last, t, ga, gb) ==
  IF Bloqueado(t, last)
  THEN [limite |-> limite, last_press |-> last]
  ELSE [limite |-> AjustarLimite(limite, ga, gb), last_press |-> t]

\* ------------------------------------------------------------------------
\* verificar_joystick
\* ------------------------------------------------------------------------
\* posicao_x = adc_read() / 4096.0f is exact in binary32.  The constants are
\* 0.3f = 10066330 / 2^25 and 0.7f = 11744051 / 2^24, so
\*   posicao_x < 0.3f  <=>  leitura * 2^13 < 10066330
\*   posicao_x > 0.7f  <=>  leitura * 2^12 > 11744051
\* variant: the dead zone falls back to MONITORAMENTO instead of latching
verificar_joystick_sem_trava(modo, leitura) ==
  IF leitura * 4096 > 11744051 THEN ESTATISTICAS ELSE MONITORAMENTO

\* variant: a centred stick selects the third enumerator
verificar_joystick_com_alerta(modo, leitura) ==
  IF leitura * 8192 < 10066330 THEN MONITORAMENTO
  ELSE IF leitura * 4096 > 11744051 THEN ESTATISTICAS
  ELSE ALERTA

verificar_joystick(modo, leitura) ==
  IF leitura * 8192 < 10066330 THEN MONITORAMENTO
  ELSE IF leitura * 4096 > 11744051 THEN ESTATISTICAS
  ELSE modo

\* ------------------------------------------------------------------------
\* acionar_buzzer
\* ------------------------------------------------------------------------
\* variant: no early return and no edge test, every call with estado true
\* counts
acionar_buzzer_sem_borda(estado, s) ==
  IF estado
  THEN [estado_anterior |-> estado,
        contador |-> s.contador + 1,
        pwm |-> [enabled |-> TRUE, wrap |-> wrap_val,
                 level |-> wrap_val \div 2]]
  ELSE [estado_anterior |-> estado,
        contador |-> s.contador,
        pwm |-> [s.pwm EXCEPT !.enabled = FALSE]]

\* variant: the slice is not disabled when the alert ends
acionar_buzzer_sem_parar(estado, s) ==
  IF estado = s.estado_anterior THEN s
  ELSE IF estado
       THEN [estado_anterior |-> estado,
             contador |-> IF ~s.estado_anterior THEN s.contador + 1
                                                ELSE s.contador,
             pwm |-> [enabled |-> TRUE, wrap |-> wrap_val,
                      level |-> wrap_val \div 2]]
       ELSE [estado_anterior |-> estado,
             contador |-> s.contador,
             pwm |-> s.pwm]

\* variant: no early return, the slice is reconfigured at every call
acionar_buzzer_sem_retorno(estado, s) ==
  IF estado
  THEN [estado_anterior |-> estado,
        contador |-> IF ~s.estado_anterior THEN s.contador + 1
                                           ELSE s.contador,
        pwm |-> [enabled |-> TRUE, wrap |-> wrap_val,
                 level |-> wrap_val \div 2]]
  ELSE [estado_anterior |-> estado,
        contador |-> s.contador,
        pwm |-> [s.pwm EXCEPT !.enabled = FALSE]]

acionar_buzzer(estado, s) ==
  IF estado = s.estado_anterior THEN s
  ELSE IF estado
       THEN [estado_anterior |-> estado,
             contador |-> IF ~s.estado_anterior THEN s.contador + 1
                                                ELSE s.contador,
             pwm |-> [enabled |-> TRUE, wrap |-> wrap_val,
                      level |-> wrap_val \div 2]]
       ELSE [estado_anterior |-> estado,
             contador |-> s.contador,
             pwm |-> [s.pwm EXCEPT !.enabled = FALSE]]

\* ------------------------------------------------------------------------
\* Screen composition
\* ------------------------------------------------------------------------
\* the largest of array[0 .. size-1], as the scan of obter_valor_maximo finds it
obter_valor_maximo(array, size) ==
  LET valores == { array[i] : i \in 0 .. (size - 1) }
  IN  CHOOSE max \in valores : \A v \in valores : max >= v

\* escala of atualizar_display as the fraction num / den: 40.0f / max when
\* the largest level of the history is above 40.0 dB, else 1.0f
\* variant: the history is always stretched to the full height
EscalaSemLimiar(max) ==
  IF max > 0 THEN [num |-> 400, den |-> max] ELSE [num |-> 1, den |-> 1]

Escala(max) ==
  IF max > 400 THEN [num |-> 400, den |-> max] ELSE [num |-> 1, den |-> 1]

\* (int)(nivel * escala), nivel and max in tenths of a dB
\* variant: the fixed factor 0.8f of desenhar_grafico
NivelEscaladoFixo(nivel, max) ==
  Trunc(8 * nivel, 100)

NivelEscalado(nivel, max) ==
  LET e == Escala(max)
  IN  Trunc(nivel * e.num, 10 * e.den)

\* the points set by the loop of atualizar_display, column i -> row y,
\* read from indice_historico onward
Grafico(h, indice) ==
  LET max == obter_valor_maximo(h, TAMANHO_HISTORICO)
  IN  [i \in Indices |->
         40 - NivelEscalado(h[(indice + i) % TAMANHO_HISTORICO], max)]

TextoModo(modo) ==
  IF modo = MONITORAMENTO THEN "Monitoramento"
  ELSE IF modo = ALERTA THEN "Modo Alerta"
  ELSE "Estatisticas"

atualizar_display(nivel, modo, limite, h, indice) ==
  [tipo         |-> "monitoramento",
   texto_db     |-> nivel,
   texto_modo   |-> TextoModo(modo),
   texto_limite |-> limite,
   escala       |-> IF modo = MONITORAMENTO
                   THEN Escala(obter_valor_maximo(h, TAMANHO_HISTORICO))
                   ELSE << >>,
   grafico      |-> IF modo = MONITORAMENTO THEN Grafico(h, indice)
                                            ELSE << >>]

\* variant: the alert banner is never chosen
ComporQuadroSemAlerta(modo, cond, nivel, limite, contador, h, indice) ==
  IF modo = ESTATISTICAS
  THEN [tipo |-> "estatisticas",
        linhas |-> << "Modo Estatisticas", contador >>]
  ELSE atualizar_display(nivel, modo, limite, h, indice)

\* lines 127-143 of main
ComporQuadro(modo, cond, nivel, limite, contador, h, indice) ==
  IF modo = ESTATISTICAS
  THEN [tipo |-> "estatisticas",
        linhas |-> << "Modo Estatisticas", contador >>]
  ELSE IF cond
       THEN [tipo |-> "alerta",
             linhas |-> << "  ALERTA!  ", "Nivel maximo", " excedido!  " >>]
       ELSE atualizar_display(nivel, modo, limite, h, indice)

\* variant: non-strict comparison
CondicaoDeAlertaNaoEstrita(nivel, limite, modo) ==
  (nivel >= limite) /\ (modo # ESTATISTICAS)

\* variant: the mode is not consulted
CondicaoDeAlertaSemModo(nivel, limite, modo) ==
  nivel > limite

\* line 124 of main
CondicaoDeAlerta(nivel, limite, modo) ==
  (nivel > limite) /\ (modo # ESTATISTICAS)

\* ------------------------------------------------------------------------
\* The shared ADC input selector
\* ------------------------------------------------------------------------
\* adc_select_input: the selector takes the requested input
adc_select_input(canal, input) ==
  input

\* the selector through one call of ler_decibeis entered with the selector
\* at canal: every sample is read right after adc_select_input(2).  lidos
\* is the set of inputs the samples were read from, final the selector at
\* the return
ler_decibeis_adc(canal) ==
  LET c == adc_select_input(canal, 2)
  IN  [lidos |-> {c}, final |-> c]

\* the selector through one call of verificar_joystick: input 1 for the
\* position read, then input 2 and a discarded read
\* variant: the selector is not handed back to the microphone input
verificar_joystick_adc_sem_devolucao(canal) ==
  LET c1 == adc_select_input(canal, 1)
  IN  [lidos |-> {c1}, final |-> c1]

verificar_joystick_adc(canal) ==
  LET c1 == adc_select_input(canal, 1)
      c2 == adc_select_input(c1, 2)
  IN  [lidos |-> {c1}, final |-> c2]

\* ------------------------------------------------------------------------
\* The main loop, one action per statement of the loop body
\* ------------------------------------------------------------------------
LerDecibeis ==
  /\ pc = "ler"
  /\ \E lote \in Lotes :
       LET r == ler_decibeis(offset_dc, lote)
       IN  /\ db' = r.db
           /\ offset_dc' = r.offset_dc
  /\ LET a == ler_decibeis_adc(adc_input)
     IN  /\ adc_input' = a.final
         /\ adc_lidos' = [adc_lidos EXCEPT !.estimador = a.lidos]
  /\ pc' = "historico"
  /\ UNCHANGED << ciclos, historico, indice_historico, limite_atual_db,
                  modo_atual, contador_alertas, estado_anterior, pwm,
                  last_press, agora, alerta_cond, tela, painel, registro,
                  transicoes, chamada, chamada_ant, decorrido, leitura_x,
                  modo_antes, padrao >>

\* variant: the push of the pass is left out
AtualizarHistoricoOmitido ==
  /\ pc = "historico"
  /\ pc' = "botoes"
  /\ UNCHANGED << ciclos, db, offset_dc, historico, indice_historico,
                  limite_atual_db, modo_atual, contador_alertas,
                  estado_anterior, pwm, last_press, agora, adc_input,
                  alerta_cond, tela, painel, registro, transicoes, chamada,
                  chamada_ant, decorrido, leitura_x, modo_antes, padrao,
                  adc_lidos >>

AtualizarHistorico ==
  /\ pc = "historico"
  /\ LET r == atualizar_historico(
                [historico |-> historico, indice |-> indice_historico], db)
     IN  /\ historico' = r.historico
         /\ indice_historico' = r.indice
  /\ registro' = Append(registro, db)
  /\ pc' = "botoes"
  /\ UNCHANGED << ciclos, db, offset_dc, limite_atual_db, modo_atual,
                  contador_alertas, estado_anterior, pwm, last_press, agora,
                  adc_input, alerta_cond, tela, painel, transicoes, chamada,
                  chamada_ant, decorrido, leitura_x, modo_antes, padrao,
                  adc_lidos >>

VerificarBotoes ==
  /\ pc = "botoes"
  /\ \E ga \in NivelGpio, gb \in NivelGpio :
       LET r == verificar_botoes(limite_atual_db, last_press, agora, ga, gb)
       IN  /\ limite_atual_db' = r.limite
           /\ last_press' = r.last_press
  /\ pc' = "joystick"
  /\ UNCHANGED << ciclos, db, offset_dc, historico, indice_historico,
                  modo_atual, contador_alertas, estado_anterior, pwm, agora,
                  adc_input, alerta_cond, tela, painel, registro, transicoes,
                  chamada, chamada_ant, decorrido, leitura_x, modo_antes,
                  padrao,
                  adc_lidos >>

VerificarJoystick ==
  /\ pc = "joystick"
  /\ \E leitura \in LeiturasJoystick :
       /\ modo_atual' = verificar_joystick(modo_atual, leitura)
       /\ leitura_x' = leitura
  /\ modo_antes' = modo_atual
  /\ LET a == verificar_joystick_adc(adc_input)
     IN  /\ adc_input' = a.final
         /\ adc_lidos' = [adc_lidos EXCEPT !.joystick = a.lidos]
  /\ pc' = "alerta"
  /\ UNCHANGED << ciclos, db, offset_dc, historico, indice_historico,
                  limite_atual_db, contador_alertas, estado_anterior, pwm,
                  last_press, agora, alerta_cond, tela, painel, registro,
                  transicoes, chamada, chamada_ant, decorrido, padrao >>

AvaliarAlerta ==
  /\ pc = "alerta"
  /\ alerta_cond' = CondicaoDeAlerta(db, limite_atual_db, modo_atual)
  /\ transicoes' = IF alerta_cond' /\ ~alerta_cond THEN transicoes + 1
                                                   ELSE transicoes
  /\ pc' = "buzzer"
  /\ UNCHANGED << ciclos, db, offset_dc, historico, indice_historico,
                  limite_atual_db, modo_atual, contador_alertas,
                  estado_anterior, pwm, last_press, agora, adc_input, tela,
                  painel, registro, chamada, chamada_ant, decorrido,
                  leitura_x, modo_antes, padrao,
                  adc_lidos >>

AcionarBuzzer ==
  /\ pc = "buzzer"
  /\ LET r == acionar_buzzer(alerta_cond,
                [estado_anterior |-> estado_anterior,
                 contador |-> contador_alertas, pwm |-> pwm])
     IN  /\ estado_anterior' = r.estado_anterior
         /\ contador_alertas' = r.contador
         /\ pwm' = r.pwm
  /\ pc' = "compor"
  /\ UNCHANGED << ciclos, db, offset_dc, historico, indice_historico,
                  limite_atual_db, modo_atual, last_press, agora, adc_input,
                  alerta_cond, tela, painel, registro, transicoes, chamada,
                  chamada_ant, decorrido, leitura_x, modo_antes, padrao,
                  adc_lidos >>

ComporTela ==
  /\ pc = "compor"
  /\ tela' = ComporQuadro(modo_atual, alerta_cond, db, limite_atual_db,
                          contador_alertas, historico, indice_historico)
  /\ pc' = "render"
  /\ UNCHANGED << ciclos, db, offset_dc, historico, indice_historico,
                  limite_atual_db, modo_atual, contador_alertas,
                  estado_anterior, pwm, last_press, agora, adc_input,
                  alerta_cond, painel, registro, transicoes, chamada,
                  chamada_ant, decorrido, leitura_x, modo_antes, padrao,
                  adc_lidos >>

\* render_on_display, sleep_ms(UPDATE_INTERVAL_MS) and the jump back to the
\* top of the loop
Renderizar ==
  /\ pc = "render"
  /\ ciclos < MaxCiclos
  /\ painel' = tela
  /\ \E d \in TemposDeCiclo : agora' = (agora + d) % TimerMod
  /\ ciclos' = ciclos + 1
  /\ pc' = "ler"
  /\ UNCHANGED << db, offset_dc, historico, indice_historico,
                  limite_atual_db, modo_atual, contador_alertas,
                  estado_anterior, pwm, last_press, adc_input, alerta_cond,
                  tela, registro, transicoes, chamada, chamada_ant,
                  decorrido, leitura_x, modo_antes, padrao,
                  adc_lidos >>

Next ==
  \/ LerDecibeis
  \/ AtualizarHistorico
  \/ VerificarBotoes
  \/ VerificarJoystick
  \/ AvaliarAlerta
  \/ AcionarBuzzer
  \/ ComporTela
  \/ Renderizar

Spec ==
  Init /\ [][Next]_vars

\* ------------------------------------------------------------------------
\* verificar_botoes on its own: calls at arbitrary spacings
\* ------------------------------------------------------------------------
InitBotoes ==
  \/ InitCom("unidade", 10 * LIMITE_DB, TempoInicial, 0, MONITORAMENTO, 0,
             SemPadrao)
  \/ \E l \in LimitesIniciais, a \in AtrasosIniciais :
       InitCom("unidade", l, TempoMeio, TempoMeio - a, MONITORAMENTO, 0,
               SemPadrao)

\* one call of verificar_botoes at the current timer value, after which d
\* ticks pass before the next call
TiqueBotoes ==
  /\ pc = "unidade"
  /\ chamada.n < MaxChamadas
  /\ \E ga \in NivelGpio, gb \in NivelGpio :
       LET r == verificar_botoes(limite_atual_db, last_press, agora, ga, gb)
       IN  /\ limite_atual_db' = r.limite
           /\ last_press' = r.last_press
           /\ chamada' = [n      |-> chamada.n + 1,
                          desde  |-> decorrido,
                          passou |-> ~Bloqueado(agora, last_press),
                          antes  |-> limite_atual_db,
                          depois |-> r.limite,
                          ga     |-> ga,
                          gb     |-> gb]
  /\ chamada_ant' = chamada
  /\ \E d \in Intervalos :
       /\ agora' = (agora + d) % TimerMod
       /\ decorrido' = d
  /\ UNCHANGED << pc, ciclos, db, offset_dc, historico, indice_historico,
                  modo_atual, contador_alertas, estado_anterior, pwm,
                  adc_input, alerta_cond, tela, painel, registro, transicoes,
                  leitura_x, modo_antes, padrao,
                  adc_lidos >>

NextBotoes ==
  TiqueBotoes

SpecBotoes ==
  InitBotoes /\ [][NextBotoes]_vars

\* ------------------------------------------------------------------------
\* verificar_joystick on its own: every 12-bit reading
\* ------------------------------------------------------------------------
InitJoystick ==
  InitCom("unidade", 10 * LIMITE_DB, TempoInicial, 0, MONITORAMENTO, 0,
          SemPadrao)

ChamarJoystick ==
  /\ pc = "unidade"
  /\ \E leitura \in LeiturasADC :
       /\ modo_atual' = verificar_joystick(modo_atual, leitura)
       /\ leitura_x' = leitura
  /\ modo_antes' = modo_atual
  /\ LET a == verificar_joystick_adc(adc_input)
     IN  /\ adc_input' = a.final
         /\ adc_lidos' = [adc_lidos EXCEPT !.joystick = a.lidos]
  /\ UNCHANGED << pc, ciclos, db, offset_dc, historico, indice_historico,
                  limite_atual_db, contador_alertas, estado_anterior, pwm,
                  last_press, agora, alerta_cond, tela, painel, registro,
                  transicoes, chamada, chamada_ant, decorrido, padrao >>

NextJoystick ==
  ChamarJoystick

SpecJoystick ==
  InitJoystick /\ [][NextJoystick]_vars

\* ------------------------------------------------------------------------
\* ler_decibeis followed by atualizar_historico, on their own: any prior
\* offset, a wider family of batches
\* ------------------------------------------------------------------------
InitNivel ==
  \E o \in OffsetsIniciais :
    InitCom("unidade", 10 * LIMITE_DB, TempoInicial, 0, MONITORAMENTO, o,
            SemPadrao)

MedirNivel ==
  /\ pc = "unidade"
  /\ Len(registro) < MaxMedidas
  /\ \E lote \in LotesDeEnsaio :
       LET r == ler_decibeis(offset_dc, lote)
           h == atualizar_historico(
                  [historico |-> historico, indice |-> indice_historico], r.db)
       IN  /\ db' = r.db
           /\ offset_dc' = r.offset_dc
           /\ historico' = h.historico
           /\ indice_historico' = h.indice
           /\ registro' = Append(registro, r.db)
  /\ LET a == ler_decibeis_adc(adc_input)
     IN  /\ adc_input' = a.final
         /\ adc_lidos' = [adc_lidos EXCEPT !.estimador = a.lidos]
  /\ UNCHANGED << pc, ciclos, limite_atual_db, modo_atual, contador_alertas,
                  estado_anterior, pwm, last_press, agora, alerta_cond, tela,
                  painel, transicoes, chamada, chamada_ant, decorrido,
                  leitura_x, modo_antes, padrao >>

NextNivel ==
  MedirNivel

SpecNivel ==
  InitNivel /\ [][NextNivel]_vars

\* ------------------------------------------------------------------------
\* atualizar_historico on its own: more pushes than the buffer has slots
\* ------------------------------------------------------------------------
InitHistorico ==
  \E s \in Sementes, p \in Passos :
    InitCom("unidade", 10 * LIMITE_DB, TempoInicial, 0, MONITORAMENTO, 0,
            [semente |-> s, passo |-> p])

NivelGerado(n) ==
  300 + ((padrao.semente + padrao.passo * n) % 900)

EmpurrarNivel ==
  /\ pc = "unidade"
  /\ Len(registro) < TAMANHO_HISTORICO + ExtraPushes
  /\ LET nivel == NivelGerado(Len(registro))
         h     == atualizar_historico(
                    [historico |-> historico, indice |-> indice_historico],
                    nivel)
     IN  /\ db' = nivel
         /\ historico' = h.historico
         /\ indice_historico' = h.indice
         /\ registro' = Append(registro, nivel)
  /\ UNCHANGED << pc, ciclos, offset_dc, limite_atual_db, modo_atual,
                  contador_alertas, estado_anterior, pwm, last_press, agora,
                  adc_input, alerta_cond, tela, painel, transicoes, chamada,
                  chamada_ant, decorrido, leitura_x, modo_antes, padrao,
                  adc_lidos >>

NextHistorico ==
  EmpurrarNivel

SpecHistorico ==
  InitHistorico /\ [][NextHistorico]_vars

\* ------------------------------------------------------------------------
\* atualizar_display on its own: histories with the largest level below, at
\* and above 40.0 dB, at either end of the buffer
\* ------------------------------------------------------------------------
InitGrafico ==
  /\ \E pico \in Picos, fundo \in Fundos, posicao \in PosicoesDoPico :
       /\ historico = [i \in Indices |-> IF i = posicao THEN pico ELSE fundo]
       /\ db = pico
  /\ indice_historico \in IndicesIniciais
  /\ modo_atual \in {MONITORAMENTO, ESTATISTICAS}
  /\ pc = "unidade"
  /\ ciclos = 0
  /\ offset_dc = 0
  /\ limite_atual_db = 10 * LIMITE_DB
  /\ contador_alertas = 0
  /\ estado_anterior = FALSE
  /\ pwm = [enabled |-> TRUE, wrap |-> PwmTopPadrao, level |-> 0]
  /\ last_press = 0
  /\ agora = TempoInicial
  /\ adc_input = 2
  /\ alerta_cond = FALSE
  /\ tela = [tipo |-> "inicio"]
  /\ painel = [tipo |-> "inicio"]
  /\ registro = << >>
  /\ transicoes = 0
  /\ chamada = SemChamada(10 * LIMITE_DB)
  /\ chamada_ant = SemChamada(10 * LIMITE_DB)
  /\ decorrido = TempoInicial
  /\ leitura_x = -1
  /\ modo_antes = modo_atual
  /\ padrao = SemPadrao
  /\ adc_lidos = SemLeituras

\* one call of atualizar_display
DesenharTela ==
  /\ pc = "unidade"
  /\ tela.tipo = "inicio"
  /\ tela' = atualizar_display(db, modo_atual, limite_atual_db, historico,
                               indice_historico)
  /\ UNCHANGED << pc, ciclos, db, offset_dc, historico, indice_historico,
                  limite_atual_db, modo_atual, contador_alertas,
                  estado_anterior, pwm, last_press, agora, adc_input,
                  alerta_cond, painel, registro, transicoes, chamada,
                  chamada_ant, decorrido, leitura_x, modo_antes, padrao,
                  adc_lidos >>

NextGrafico ==
  DesenharTela

SpecGrafico ==
  InitGrafico /\ [][NextGrafico]_vars

\* ------------------------------------------------------------------------
\* Properties
\* ------------------------------------------------------------------------

\* C1: contador_alertas equals the number of passes whose alert condition
\* was true while the previous pass's was false (false before the first
\* pass); between the evaluation of the condition and the buzzer update of
\* the same pass the count is one step behind.  The counter never decreases
\* and grows by at most one per step.
C1_ContadorContaTransicoes ==
  /\ [](pc # "buzzer" => contador_alertas = transicoes)
  /\ [][/\ contador_alertas' >= contador_alertas
        /\ contador_alertas' <= contador_alertas + 1]_vars

\* two alerts have been counted by the end of a pass: on, off, on
C1_Witness ==
  /\ pc = "render"
  /\ contador_alertas = 2
  /\ transicoes = 2

\* C2: once the alert condition of a pass is evaluated it is exactly
\* (level > threshold) and (mode is not Statistics), for the level of that
\* pass and the threshold and mode as the pass's button and joystick checks
\* left them; in Statistics it is false and the buzzer is left off; a level
\* equal to the threshold does not raise it.
C2_CondicaoDeAlerta ==
  pc \in {"buzzer", "compor", "render"} =>
    /\ alerta_cond <=> (db > limite_atual_db /\ modo_atual # ESTATISTICAS)
    /\ modo_atual = ESTATISTICAS => ~alerta_cond
    /\ db = limite_atual_db => ~alerta_cond
    /\ (pc # "buzzer" /\ modo_atual = ESTATISTICAS) => ~estado_anterior

\* Statistics with the level above the threshold: no alert, buzzer off
C2_Witness ==
  /\ pc = "compor"
  /\ modo_atual = ESTATISTICAS
  /\ db > limite_atual_db
  /\ ~alerta_cond
  /\ ~estado_anterior

\* C3: the threshold stays within [30.0, 120.0] after every button tick; a
\* step that would leave the range ends on the bound.
C3_LimiteNaFaixa ==
  /\ limite_atual_db >= 300
  /\ limite_atual_db <= 1200
  /\ (chamada.passou /\ chamada.ga = 0 /\ chamada.gb = 1
        /\ chamada.antes = 1200) => limite_atual_db = 1200
  /\ (chamada.passou /\ chamada.ga = 1 /\ chamada.gb = 0
        /\ chamada.antes = 300) => limite_atual_db = 300

\* an accepted tick with only button A active at 120.0 leaves 120.0
C3_Witness ==
  /\ chamada.n >= 1
  /\ chamada.passou
  /\ chamada.ga = 0
  /\ chamada.gb = 1
  /\ chamada.antes = 1200
  /\ limite_atual_db = 1200

\* C4: of two calls of verificar_botoes less than 200 ms apart at most one
\* gets past the debounce test, and the threshold after the second differs
\* from the threshold before the first by at most 1.0, whatever the buttons.
C4_UmAjustePorJanela ==
  (chamada.n >= 2 /\ chamada.desde < debounce_delay) =>
    /\ ~(chamada.passou /\ chamada_ant.passou)
    /\ limite_atual_db - chamada_ant.antes <= 10
    /\ chamada_ant.antes - limite_atual_db <= 10

\* the first of the two calls adjusted the threshold, the second came one
\* tick short of 200 ms later with button A active and changed nothing
C4_Witness ==
  /\ chamada.n >= 2
  /\ chamada.desde = debounce_delay - 1
  /\ chamada_ant.passou
  /\ chamada_ant.depois # chamada_ant.antes
  /\ chamada.ga = 0
  /\ ~chamada.passou
  /\ limite_atual_db = chamada_ant.depois

C6_HistoricoCircular ==
  /\ [](/\ DOMAIN historico = Indices
        /\ indice_historico \in Indices
        /\ Len(registro) >= TAMANHO_HISTORICO =>
             \A i \in Indices :
               historico[(indice_historico + i) % TAMANHO_HISTORICO]
                 = registro[Len(registro) - TAMANHO_HISTORICO + i + 1])
  /\ [][\A j \in Indices :
          j # indice_historico => historico'[j] = historico[j]]_vars

\* the buffer has wrapped: two pushes beyond the 128th
C6_Witness ==
  /\ Len(registro) = TAMANHO_HISTORICO + 2
  /\ indice_historico = 2
  /\ historico[1] = registro[TAMANHO_HISTORICO + 2]
  /\ historico[2] = registro[3]

\* C7: the frame handed to render_on_display is the statistics screen with
\* the current counter whenever the mode is Statistics, else the alert
\* banner whenever the alert condition holds, else the monitoring screen
\* with the level, mode label, threshold and the 128-point graph.
C7_UmaTelaPorPrioridade ==
  pc = "render" =>
    /\ tela.tipo \in {"estatisticas", "alerta", "monitoramento"}
    /\ tela.tipo = "estatisticas" <=> modo_atual = ESTATISTICAS
    /\ tela.tipo = "alerta" <=> (modo_atual # ESTATISTICAS /\ alerta_cond)
    /\ tela.tipo = "monitoramento" <=>
         (modo_atual # ESTATISTICAS /\ ~alerta_cond)
    /\ tela.tipo = "estatisticas" => tela.linhas[2] = contador_alertas
    /\ tela.tipo = "monitoramento" =>
         /\ tela.texto_db = db
         /\ tela.texto_limite = limite_atual_db
         /\ tela.texto_modo = "Monitoramento"
         /\ DOMAIN tela.grafico = Indices

\* the alert banner is composed in a pass whose alert condition holds
C7_Witness ==
  /\ pc = "render"
  /\ alerta_cond
  /\ modo_atual = MONITORAMENTO
  /\ tela.tipo = "alerta"

\* C8 as stated: the enable bit of the buzzer's PWM slice is set exactly
\* while the alert state machine is Sounding.
C8_HabilitadoSseSoando ==
  pwm.enabled <=> estado_anterior

\* C8, amended: the buzzer gets its tone (slice enabled with a non-zero
\* channel level) exactly while the alert state machine is Sounding, then
\* with wrap 3125 and level 1562; the slice is enabled without Sounding only
\* as pwm_init left it, before the first alert, with channel level 0.
C8_TomSseSoando ==
  /\ (pwm.enabled /\ pwm.level > 0) <=> estado_anterior
  /\ estado_anterior =>
       (pwm.wrap = 3125 /\ pwm.level = 1562)
  /\ (pwm.enabled /\ ~estado_anterior) =>
       (contador_alertas = 0 /\ pwm.level = 0 /\ pwm.wrap = PwmTopPadrao)

\* an alert has ended: Silent again, slice disabled
C8_Witness ==
  /\ contador_alertas >= 1
  /\ ~estado_anterior
  /\ ~pwm.enabled
  /\ pc = "compor"

\* C9: every level returned by ler_decibeis is at least 30.0 dB, and so is
\* every history slot that has been written.
C9_PisoDoNivel ==
  /\ Len(registro) > 0 => db >= 300
  /\ \A i \in Indices : i < Len(registro) => historico[i] >= 300

\* an all-zero batch with the offset at zero (rms = 0) returns 30.0 dB
C9_Witness ==
  /\ Len(registro) > 0
  /\ offset_dc = 0
  /\ db = 300
  /\ historico[Len(registro) - 1] = 300

\* C10: after a joystick check the mode is Monitoring if the reading is
\* below 0.3 of full scale, Statistics if above 0.7, and the mode of before
\* the check anywhere in between.
C10_ModoPelaPosicao ==
  leitura_x >= 0 =>
    /\ 10 * leitura_x < 3 * 4096 => modo_atual = MONITORAMENTO
    /\ 10 * leitura_x > 7 * 4096 => modo_atual = ESTATISTICAS
    /\ (10 * leitura_x >= 3 * 4096 /\ 10 * leitura_x <= 7 * 4096) =>
         modo_atual = modo_antes

\* a reading in the dead zone keeps Statistics
C10_Witness ==
  /\ leitura_x = 2048
  /\ modo_antes = ESTATISTICAS
  /\ modo_atual = ESTATISTICAS

\* C11: the monitoring screen scales the graph by 40.0 / max when the
\* largest of the 128 history slots, wherever it sits, is above 40.0 dB and
\* by exactly 1.0 otherwise: a maximum of 20.0 gives 1.0, a maximum of
\* exactly 40.0 gives 1.0, a maximum of 80.0 gives 0.5.
C11_EscalaDoGrafico ==
  (tela.tipo = "monitoramento" /\ modo_atual = MONITORAMENTO) =>
    \E k \in Indices :
      LET max == historico[k]
      IN  /\ \A j \in Indices : historico[j] <= max
          /\ IF max > 400
             THEN tela.escala.num * max = 400 * tela.escala.den
             ELSE tela.escala.num = tela.escala.den
          /\ max = 200 => tela.escala.num = tela.escala.den
          /\ max = 400 => tela.escala.num = tela.escala.den
          /\ max = 800 => 2 * tela.escala.num = tela.escala.den

\* a history whose largest level, 80.0 dB, sits in the last slot is drawn
\* at half scale
C11_Witness ==
  /\ tela.tipo = "monitoramento"
  /\ modo_atual = MONITORAMENTO
  /\ historico[TAMANHO_HISTORICO - 1] = 800
  /\ \A j \in Indices : historico[j] <= 800
  /\ 2 * tela.escala.num = tela.escala.den

\* C12: modo_atual is Monitoring or Statistics in every state of the run;
\* no sequence of joystick readings, button levels and sound levels puts it
\* in ALERTA.
C12_ModoNuncaAlerta ==
  /\ modo_atual \in {MONITORAMENTO, ESTATISTICAS}
  /\ modo_atual # ALERTA
  /\ modo_antes \in {MONITORAMENTO, ESTATISTICAS}

\* a joystick check has moved the mode from Monitoring to Statistics in a
\* pass whose level is above the threshold
C12_Witness ==
  /\ pc = "alerta"
  /\ modo_antes = MONITORAMENTO
  /\ modo_atual = ESTATISTICAS
  /\ leitura_x = 4095
  /\ db > limite_atual_db

\* C13: a call of acionar_buzzer whose argument equals the stored previous
\* state (Silent while Silent, Sounding while Sounding) leaves the alert
\* counter, the stored state and the enable, wrap and level settings of the
\* PWM slice unchanged.
C13_PedidoRepetidoNadaMuda ==
  [][(pc = "buzzer" /\ alerta_cond = estado_anterior) =>
       /\ contador_alertas' = contador_alertas
       /\ estado_anterior' = estado_anterior
       /\ pwm'.enabled = pwm.enabled
       /\ pwm'.wrap = pwm.wrap
       /\ pwm'.level = pwm.level]_vars

\* second pass, after the buzzer update: the first pass ended in Monitoring
\* with a level above any threshold it could have had, so the buzzer was
\* already Sounding when this pass asked for Sounding again; the counter is
\* still 1 and the slice keeps its tone settings
C13_Witness ==
  /\ pc = "compor"
  /\ ciclos = 1
  /\ modo_antes = MONITORAMENTO
  /\ registro[1] > 10 * LIMITE_DB + 10
  /\ alerta_cond
  /\ estado_anterior
  /\ contador_alertas = 1
  /\ pwm = [enabled |-> TRUE, wrap |-> wrap_val, level |-> wrap_val \div 2]

\* C14: every sample the level estimator reads is taken with the ADC
\* selector on input 2, the selector is on input 2 whenever
\* verificar_joystick has returned, and input 1 is selected only inside
\* verificar_joystick: between the steps of the loop the selector is never
\* on input 1 and no estimator sample comes from the joystick input.
C14_CanalDoMicrofone ==
  /\ adc_lidos.estimador \subseteq {2}
  /\ adc_input = 2
  /\ adc_input # 1
  /\ adc_lidos.joystick \subseteq {1}

\* the estimator has sampled again after a joystick check that read the
\* position from input 1
C14_Witness ==
  /\ pc = "historico"
  /\ ciclos >= 1
  /\ adc_lidos.joystick = {1}
  /\ adc_lidos.estimador = {2}
  /\ adc_input = 2

\* C15: every pass of the loop runs level estimate, history push, button
\* check, joystick check, alert evaluation, buzzer update, screen
\* composition and render in that order, each step touching only its own
\* state; so the alert condition of a pass is computed from the level of
\* that pass and from the threshold and mode as the button and joystick
\* checks of that pass left them, the history holds the level of the pass
\* when the screen is composed, and the buzzer and the screen of a pass use
\* the same value of the alert condition.
C15_OrdemDoCiclo ==
  /\ [][/\ pc' = CASE pc = "ler"       -> "historico"
                    [] pc = "historico" -> "botoes"
                    [] pc = "botoes"    -> "joystick"
                    [] pc = "joystick"  -> "alerta"
                    [] pc = "alerta"    -> "buzzer"
                    [] pc = "buzzer"    -> "compor"
                    [] pc = "compor"    -> "render"
                    [] pc = "render"    -> "ler"
        /\ db' # db => pc = "ler"
        /\ registro' # registro => pc = "historico"
        /\ historico' # historico => pc = "historico"
        /\ limite_atual_db' # limite_atual_db => pc = "botoes"
        /\ modo_atual' # modo_atual => pc = "joystick"
        /\ alerta_cond' # alerta_cond => pc = "alerta"
        /\ estado_anterior' # estado_anterior => pc = "buzzer"
        /\ contador_alertas' # contador_alertas => pc = "buzzer"
        /\ pwm' # pwm => pc = "buzzer"
        /\ tela' # tela => pc = "compor"
        /\ painel' # painel => pc = "render"]_vars
  /\ [](pc \in {"botoes", "joystick", "alerta", "buzzer", "compor", "render"}
          => /\ Len(registro) = ciclos + 1
             /\ registro[ciclos + 1] = db
             /\ historico[(indice_historico - 1) % TAMANHO_HISTORICO] = db)
  /\ [](pc \in {"buzzer", "compor", "render"}
          => alerta_cond = (db > limite_atual_db /\ modo_atual # ESTATISTICAS))
  /\ [](pc \in {"compor", "render"} => estado_anterior = alerta_cond)
  /\ [](pc = "render"
          => /\ tela.tipo = "alerta" <=> alerta_cond
             /\ tela.tipo = "monitoramento" => tela.texto_db = db)

\* first pass at the render step: the button check of this pass lowered the
\* threshold from 100.0 to 99.0, the level of this pass lies above the new
\* threshold, and the buzzer and the banner both follow the alert
\* condition computed from them
C15_Witness ==
  /\ pc = "render"
  /\ ciclos = 0
  /\ limite_atual_db = 10 * LIMITE_DB - 10
  /\ registro = << db >>
  /\ db > limite_atual_db
  /\ modo_atual = MONITORAMENTO
  /\ alerta_cond
  /\ estado_anterior
  /\ tela.tipo = "alerta"

\* C16: when both buttons are active at a call that passes the debounce
\* gate, the increment is applied first and the decrement second, each with
\* its clamp: the threshold ends where it started for every start from 30.0
\* to 119.0 dB, and at 119.0 dB when it started at 120.0 dB.
C16_AmbosOsBotoes ==
  (chamada.n >= 1 /\ chamada.passou /\ chamada.ga = 0 /\ chamada.gb = 0) =>
    /\ limite_atual_db = chamada.depois
    /\ chamada.antes \in 300 .. 1190 => chamada.depois = chamada.antes
    /\ chamada.antes = 1200 => chamada.depois = 1190

\* both buttons were active at an accepted call made with the threshold at
\* 120.0 dB, which left it at 119.0 dB
C16_Witness ==
  /\ chamada.n >= 1
  /\ chamada.passou
  /\ chamada.ga = 0
  /\ chamada.gb = 0
  /\ chamada.antes = 1200
  /\ limite_atual_db = 1190

\* C17: last_press is rewritten with the time of every call that passes the
\* 200 ms gate, whether or not a button was active at it, and is left alone
\* by every gated call, which also leaves the threshold alone; so a button
\* active only at a call made less than 200 ms after an idle accepted call
\* produces no adjustment, and the threshold changes only at a call made at
\* least 200 ms after the latest accepted call with a button active at it.
C17_MarcaACadaPassagem ==
  /\ [][chamada'.n = chamada.n + 1 =>
          LET intervalo == (agora - last_press) % TimerMod
          IN  /\ intervalo >= debounce_delay => last_press' = agora
              /\ intervalo < debounce_delay =>
                    /\ last_press' = last_press
                    /\ limite_atual_db' = limite_atual_db
              /\ limite_atual_db' # limite_atual_db =>
                    /\ intervalo >= debounce_delay
                    /\ chamada'.ga = 0 \/ chamada'.gb = 0]_vars
  /\ []((/\ chamada_ant.n >= 1
         /\ chamada_ant.passou
         /\ chamada_ant.ga = 1
         /\ chamada_ant.gb = 1
         /\ chamada.desde < debounce_delay)
        => /\ ~chamada.passou
           /\ chamada.depois = chamada.antes
           /\ limite_atual_db = chamada_ant.antes)

\* button A was active at a call made 80 ms after an accepted call at which
\* no button was active; the threshold is where it was before both calls
C17_Witness ==
  /\ chamada_ant.n >= 1
  /\ chamada_ant.passou
  /\ chamada_ant.ga = 1
  /\ chamada_ant.gb = 1
  /\ chamada.desde = 1250
  /\ chamada.ga = 0
  /\ ~chamada.passou
  /\ limite_atual_db = chamada_ant.antes

\* C18: a buzzer that is Sounding when the mode has become Statistics is
\* stopped by the buzzer update of that same pass; a buzzer that is Silent
\* in a Monitoring pass whose level exceeds the threshold is started and
\* contador_alertas grows by one, whatever the level did in between: the
\* counter follows the rising edges of the combined alert condition, not the
\* excursions of the level above the threshold.
C18_ReinicioAposEstatisticas ==
  /\ [][(pc = "buzzer" /\ estado_anterior /\ modo_atual = ESTATISTICAS) =>
          /\ ~estado_anterior'
          /\ ~pwm'.enabled
          /\ contador_alertas' = contador_alertas]_vars
  /\ [][(/\ pc = "buzzer"
         /\ ~estado_anterior
         /\ modo_atual = MONITORAMENTO
         /\ db > limite_atual_db) =>
          /\ estado_anterior'
          /\ pwm'.enabled /\ pwm'.level > 0
          /\ contador_alertas' = contador_alertas + 1]_vars
  /\ [](pc \in {"compor", "render"} /\ modo_atual = ESTATISTICAS
          => ~estado_anterior /\ ~(pwm.enabled /\ pwm.level > 0))

\* third pass: every level so far lies above 102.0 dB, the highest value the
\* threshold can have had, the first pass alerted, the second was spent in
\* Statistics and this one is back in Monitoring; the buzzer sounds again
\* and the counter stands at 2
C18_Witness ==
  /\ pc = "render"
  /\ ciclos = 2
  /\ Len(registro) = 3
  /\ \A i \in 1 .. 3 : registro[i] > 10 * LIMITE_DB + 20
  /\ modo_antes = ESTATISTICAS
  /\ modo_atual = MONITORAMENTO
  /\ estado_anterior
  /\ pwm.enabled
  /\ contador_alertas = 2

\* C19: when the monitoring screen draws the graph of a history whose slots
\* each hold 0 or at least 30.0 dB, it sets exactly one point in each of
\* the columns 0 .. 127, at row 40 - trunc(level * scale), and every row lies
\* between 0 and 40.
C19_PontosNaFaixa ==
  (/\ tela.tipo = "monitoramento"
   /\ modo_atual = MONITORAMENTO
   /\ \A j \in Indices : historico[j] = 0 \/ historico[j] >= 300) =>
    /\ DOMAIN tela.grafico = 0 .. 127
    /\ \A i \in 0 .. 127 :
         LET nivel == historico[(indice_historico + i) % TAMANHO_HISTORICO]
         IN  /\ tela.grafico[i] \in 0 .. 40
             /\ tela.grafico[i] =
                  40 - ((nivel * tela.escala.num) \div (10 * tela.escala.den))

\* a graph drawn at reduced scale with the peak of 124.0 dB on row 0 and
\* never-written slots on the baseline, row 40
C19_Witness ==
  /\ tela.tipo = "monitoramento"
  /\ modo_atual = MONITORAMENTO
  /\ \A j \in Indices : historico[j] = 0 \/ historico[j] >= 300
  /\ \E j \in Indices : historico[j] = 1240
  /\ \E i \in Indices : tela.grafico[i] = 0
  /\ \E i \in Indices : tela.grafico[i] = 40

====
